---- MODULE Spec2Model ----
(***************************************************************************)
(* Salgsmester: the cadence-gated momentum strategy                        *)
(* (strategy.py), the risk helpers it uses (risk.py), the portfolio value  *)
(* types (data_models.py) and the PortfolioManager cycle                   *)
(* (portfolio_manager.py) that executes sales and purchases through the    *)
(* NordnetClient (nordnet_client.py), and the weekly report                *)
(* (reporting.py).                                                         *)
(*                                                                         *)
(* Numbers.  Prices, quantities and entry prices are whole numbers.        *)
(* Fractions (daily/weekly change, volatility, targets) are kept in        *)
(* hundredths.  Cash is kept in units of 1/RateDen krone so that the       *)
(* variable fee (RateNum/RateDen of the gross amount) is exact.            *)
(* Times are whole ticks of one day; the cadence is a number of ticks.     *)
(* datetime.utcnow() read during a cycle is the cycle's `now`.             *)
(***************************************************************************)
EXTENDS Integers, Sequences, FiniteSets, TLC

VARIABLES
    cadence,          \* StrategyTargets.rebalance_cadence (fixed for the run)
    last_rebalance,   \* StrategyContext.last_rebalance: None or Some(t)
    now,              \* the `now` argument of the latest evaluate / cycle
    decision,         \* the TradeDecision the latest evaluate returned
    trade_log,        \* PortfolioManager.trade_log
    orders,           \* orders the brokerage accepted, in order
    pc,               \* position inside run_daily_cycle / _execute_sales
    exception,        \* the exception the call in progress raised, or "none"
    fetched,          \* the portfolio as fetch_portfolio returned it
    instruments,      \* the list fetch_instruments returned
    portfolio,        \* the Portfolio object the cycle mutates
    sell_queue,       \* symbols _execute_sales has still to visit
    buy_queue,        \* candidates _execute_purchases has still to visit
    per_trade_budget, \* available_cash / max(len(candidate_list), 1)
    prev_rebalance,   \* history: last_rebalance before the latest evaluate
    mark,             \* history: len(trade_log), len(orders) when the call began
    call              \* the latest call made on a function by itself:
                      \* its name, its arguments and what it returned

vars == << cadence, last_rebalance, now, decision, trade_log, orders, pc,
           exception, fetched, instruments, portfolio, sell_queue, buy_queue,
           per_trade_budget, prev_rebalance, mark, call >>

----------------------------------------------------------------------------
(* Bounds of the model *)

MaxTime == 2
MaxCadence == 2
MaxPositions == 2
MaxInstruments == 2
MaxLog == 2
MaxSells == 2
MaxCandidates == 3
MaxPerSector == 3
MaxEntries == 3
MaxDays == 8

(* Program constants *)

fixed_fee == 29
RateNum == 55
RateDen == 100000
weekly_growth_target == 5
max_portfolio_volatility == 25
notional == 10000
max_per_sector == 2
week_days == 7

----------------------------------------------------------------------------
(* Small helpers *)

None == << >>
Some(x) == << x >>

Max(a, b) == IF a >= b THEN a ELSE b

CeilDiv(a, b) == (a + b - 1) \div b

Units(kroner) == kroner * RateDen

Range(s) == { s[i] : i \in 1..Len(s) }

RemoveAt(s, idx) == [ i \in 1..(Len(s) - 1) |-> IF i < idx THEN s[i] ELSE s[i + 1] ]

SeqsUpTo(S, n) == UNION { [1..k -> S] : k \in 0..n }

----------------------------------------------------------------------------
(* data_models.py *)

InstrumentSnapshot(symbol, last_price, daily, weekly, vol, sector) ==
    [ symbol |-> symbol, last_price |-> last_price,
      daily_change_pct |-> daily, weekly_change_pct |-> weekly,
      volatility |-> vol, sector |-> sector ]

\* momentum = 0.4*daily + 0.6*weekly; risk_adjustment = max(1 - volatility, 0.1).
\* With the changes and the volatility in hundredths the product is in 1/100000.
expected_short_term_growth(inst) ==
    (4 * inst.daily_change_pct + 6 * inst.weekly_change_pct)
        * Max(100 - inst.volatility, 10)

Position(instrument, quantity, entry_price, entry_time) ==
    [ instrument |-> instrument, quantity |-> quantity,
      entry_price |-> entry_price, entry_time |-> entry_time ]

market_value(position) == position.instrument.last_price * position.quantity

\* The return as a fraction num/den (den > 0); 0 when the entry price is 0.
unrealised_return_pct(position) ==
    IF position.entry_price = 0
    THEN [ num |-> 0, den |-> 1 ]
    ELSE [ num |-> position.instrument.last_price - position.entry_price,
           den |-> position.entry_price ]

Portfolio(positions, cash, last_trade_time) ==
    [ positions |-> positions, cash |-> cash, last_trade_time |-> last_trade_time ]

\* sum(position.market_value() for position in positions)
RECURSIVE positions_value(_)
positions_value(positions) ==
    IF positions = << >> THEN 0
    ELSE market_value(Head(positions)) + positions_value(Tail(positions))

\* cash + the market values, in 1/RateDen.
total_value(pf) == pf.cash + Units(positions_value(pf.positions))

add_position(pf, position) ==
    [ pf EXCEPT !.positions = Append(pf.positions, position),
                !.last_trade_time = Some(position.entry_time) ]

\* Fault of remove_position: the pop is done whether or not a match was found.
remove_position_pops_anyway(pf, symbol, utcnow) ==
    LET hits == { i \in 1..Len(pf.positions) : pf.positions[i].instrument.symbol = symbol }
        idx  == IF hits = {} THEN Len(pf.positions)
                ELSE CHOOSE i \in hits : \A j \in hits : i <= j
    IN  IF pf.positions = << >>
        THEN [ portfolio |-> pf, removed |-> None ]
        ELSE [ portfolio |-> [ pf EXCEPT !.positions = RemoveAt(pf.positions, idx),
                                         !.last_trade_time = Some(utcnow) ],
               removed |-> Some(pf.positions[idx]) ]

\* The first position with the symbol is popped; None when there is none.
remove_position(pf, symbol, utcnow) ==
    LET hits == { i \in 1..Len(pf.positions) : pf.positions[i].instrument.symbol = symbol }
    IN  IF hits = {}
        THEN [ portfolio |-> pf, removed |-> None ]
        ELSE LET idx == CHOOSE i \in hits : \A j \in hits : i <= j
             IN  [ portfolio |-> [ pf EXCEPT !.positions = RemoveAt(pf.positions, idx),
                                             !.last_trade_time = Some(utcnow) ],
                   removed |-> Some(pf.positions[idx]) ]

----------------------------------------------------------------------------
(* risk.py *)

RiskMetrics(volatility, downside_risk, exposure_concentration) ==
    [ volatility |-> volatility, downside_risk |-> downside_risk,
      exposure_concentration |-> exposure_concentration ]

\* 0.0
Zero == [ num |-> 0, den |-> 1 ]

RECURSIVE Sum(_)
Sum(values) == IF values = << >> THEN 0 ELSE Head(values) + Sum(Tail(values))

RECURSIVE MaxOf(_)
MaxOf(values) ==
    IF Len(values) = 1 THEN values[1] ELSE Max(Head(values), MaxOf(Tail(values)))

\* fee = fixed_fee + gross_value * variable_fee_rate, in 1/RateDen.
position_fee(position) ==
    fixed_fee * RateDen + market_value(position) * RateNum

\* max(gross_value - fee, 0.0), in 1/RateDen.
net_value(position) ==
    Max(Units(market_value(position)) - position_fee(position), 0)

\* max(-daily_change_pct, 0.0) + fee_drag, the two terms kept apart; fee_drag
\* is fee / gross_value, or 0.0 when the gross value is 0.
downside_component(position) ==
    [ buffer |-> Max(-position.instrument.daily_change_pct, 0),
      fee_drag |-> IF market_value(position) # 0
                   THEN [ num |-> position_fee(position),
                          den |-> Units(market_value(position)) ]
                   ELSE Zero ]

\* Fault of total_not_positive: a total of exactly 0 is let through.
total_negative(total_net_value) == total_net_value < 0

\* The guard of line 33.
total_not_positive(total_net_value) == total_net_value <= 0

\* The metrics as fractions num/den: the volatility in hundredths, the
\* downside risk as the list its mean is taken of.  A denominator of 0 is a
\* division by zero.
estimate_portfolio_risk(pf) ==
    IF pf.positions = << >>
    THEN RiskMetrics(Zero, Zero, Zero)
    ELSE LET positions  == pf.positions
             net_values == [ i \in 1..Len(positions) |-> net_value(positions[i]) ]
             total_net_value == Sum(net_values) + pf.cash
         IN  IF total_not_positive(total_net_value)
             THEN RiskMetrics(Zero, Zero, Zero)
             ELSE RiskMetrics(
                    [ num |-> Sum([ i \in 1..Len(positions) |->
                                      positions[i].instrument.volatility * net_values[i] ]),
                      den |-> total_net_value ],
                    [ mean_of |-> [ i \in 1..Len(positions) |->
                                      downside_component(positions[i]) ] ],
                    [ num |-> MaxOf(net_values), den |-> total_net_value ])

\* volatility + max(-daily, 0) + fee_ratio, in hundredths and rounded up to a
\* whole hundredth: the caller compares it with a whole number of hundredths
\* m, and x <= m exactly when ceil(x) <= m.
score_instrument_risk(inst) ==
    LET gross == Max(notional, inst.last_price)
        fee   == fixed_fee * RateDen + gross * RateNum   \* in 1/RateDen
    IN  inst.volatility + Max(-inst.daily_change_pct, 0)
          + CeilDiv(100 * fee, gross * RateDen)

\* Fault of sector_of: the sector taken as it is, None and "" included.
sector_of_raw(candidate) == candidate.sector

\* candidate.sector or "ukjent": None and the empty string are falsy.
sector_of(candidate) ==
    IF candidate.sector \in { "None", "" } THEN "ukjent" ELSE candidate.sector

\* Fault of sort_by_growth: equal keys come out in reverse input order.
RECURSIVE sort_by_growth_ties_reversed(_)
sort_by_growth_ties_reversed(s) ==
    IF s = << >> THEN << >>
    ELSE LET x    == s[Len(s)]
             rest == sort_by_growth_ties_reversed(SubSeq(s, 1, Len(s) - 1))
             g    == expected_short_term_growth(x)
         IN  SelectSeq(rest, LAMBDA y : expected_short_term_growth(y) > g)
               \o << x >>
               \o SelectSeq(rest, LAMBDA y : expected_short_term_growth(y) <= g)

\* sorted(..., key=growth, reverse=True): stable, equal keys keep input order.
RECURSIVE sort_by_growth(_)
sort_by_growth(s) ==
    IF s = << >> THEN << >>
    ELSE LET x    == s[Len(s)]
             rest == sort_by_growth(SubSeq(s, 1, Len(s) - 1))
             g    == expected_short_term_growth(x)
         IN  SelectSeq(rest, LAMBDA y : expected_short_term_growth(y) >= g)
               \o << x >>
               \o SelectSeq(rest, LAMBDA y : expected_short_term_growth(y) < g)

CountGet(counts, key) == IF key \in DOMAIN counts THEN counts[key] ELSE 0

RECURSIVE diversify_loop(_, _, _, _)
diversify_loop(todo, limit, selected, sector_counts) ==
    IF todo = << >> THEN selected
    ELSE LET candidate == Head(todo)
             sector    == sector_of(candidate)
         IN  IF CountGet(sector_counts, sector) >= limit
             THEN diversify_loop(Tail(todo), limit, selected, sector_counts)
             ELSE diversify_loop(Tail(todo), limit, Append(selected, candidate),
                    [ k \in DOMAIN sector_counts \cup { sector } |->
                        IF k = sector THEN CountGet(sector_counts, sector) + 1
                        ELSE sector_counts[k] ])

diversify_candidates(candidates, limit) ==
    diversify_loop(sort_by_growth(candidates), limit, << >>, [ k \in {} |-> 0 ])

----------------------------------------------------------------------------
(* strategy.py *)

TradeDecision(buy_candidates, sell_symbols, reason) ==
    [ buy_candidates |-> buy_candidates, sell_symbols |-> sell_symbols,
      reason |-> reason ]

\* "Rebalansering ikke nodvendig enna"
NotDueReason == [ kind |-> "not_due", candidates |-> 0 ]
\* "...; Utvalgte kandidater: <n>"
SummaryReason(n) == [ kind |-> "summary", candidates |-> n ]
NoReason == [ kind |-> "none", candidates |-> 0 ]

\* Faults of should_rebalance: the gate left open, the boundary excluded,
\* the elapsed time taken without its sign.
should_rebalance_always(last, cad, t) == TRUE

should_rebalance_strict(last, cad, t) ==
    IF last = None THEN TRUE
    ELSE t - last[1] > cad

should_rebalance_abs(last, cad, t) ==
    IF last = None THEN TRUE
    ELSE Max(t - last[1], last[1] - t) >= cad

should_rebalance(last, cad, t) ==
    IF last = None THEN TRUE
    ELSE t - last[1] >= cad

\* Fault of meets_growth_target: the boundary excluded.
meets_growth_target_strict(position) ==
    LET r == unrealised_return_pct(position)
    IN  r.num * 100 > weekly_growth_target * r.den

meets_growth_target(position) ==
    LET r == unrealised_return_pct(position)
    IN  r.num * 100 >= weekly_growth_target * r.den

\* Fault of not_due_decision: a symbol to sell is named all the same.
not_due_decision_selling == TradeDecision(<< >>, << "A" >>, NotDueReason)

\* The decision of line 52: nothing to buy, nothing to sell.
not_due_decision == TradeDecision(<< >>, << >>, NotDueReason)

\* Fault of has_price: instruments without a price are let through.
has_price_or_not(inst) == TRUE

\* The condition of the growth_candidates comprehension (line 55).
has_price(inst) == inst.last_price > 0

\* Returns the decision and the value of context.last_rebalance afterwards.
evaluate(last, cad, t, pf, insts) ==
    IF ~should_rebalance(last, cad, t)
    THEN [ decision |-> not_due_decision, last_rebalance |-> last ]
    ELSE LET growth_candidates ==
                 sort_by_growth(SelectSeq(insts, has_price))
             diversified == diversify_candidates(growth_candidates, max_per_sector)
             sellers == SelectSeq(pf.positions, meets_growth_target)
             sell_symbols == [ i \in 1..Len(sellers) |-> sellers[i].instrument.symbol ]
             filtered == SelectSeq(diversified,
                           LAMBDA c : score_instrument_risk(c) <= max_portfolio_volatility)
         IN  [ decision |-> TradeDecision(filtered, sell_symbols,
                                          SummaryReason(Len(filtered))),
               last_rebalance |-> Some(t) ]

\* Fault of required_weekly_trade: the seventh day itself does not count.
required_weekly_trade_after(t, pf) ==
    LET last_trade == pf.last_trade_time
    IN  IF last_trade = None THEN TRUE
        ELSE t - last_trade[1] > week_days

\* now - last_trade >= timedelta(days=7), or True when there was no trade.
required_weekly_trade(t, pf) ==
    LET last_trade == pf.last_trade_time
    IN  IF last_trade = None THEN TRUE
        ELSE t - last_trade[1] >= week_days

----------------------------------------------------------------------------
(* nordnet_client.py *)

estimate_trade_fee(price, quantity) ==
    fixed_fee * RateDen + (price * quantity) * RateNum

estimate_total_buy_cost(price, quantity) ==
    Units(price * quantity) + estimate_trade_fee(price, quantity)

----------------------------------------------------------------------------
(* Data the brokerage can return *)

Times == 0..MaxTime

\* A: the cheap candidate; B: the dear one, no sector; C: no price;
\* D: too risky (24 + 2 + fee > 25); E: dear, best growth.
InstrumentCatalogue ==
    << InstrumentSnapshot("A", 100, 2, 1, 10, "energi"),
       InstrumentSnapshot("B", 300, 1, 1, 10, "None"),
       InstrumentSnapshot("C", 0, 3, 3, 10, "energi"),
       InstrumentSnapshot("D", 100, -2, 3, 24, "energi"),
       InstrumentSnapshot("E", 300, 3, 3, 10, "finans") >>

\* A bought at 200 (a loss), A bought at 100 (return exactly 5/100),
\* B with an entry price of 0, E with a return of 10/100.
PositionCatalogue ==
    << Position(InstrumentSnapshot("A", 105, 2, 1, 10, "energi"), 3, 200, 0),
       Position(InstrumentSnapshot("A", 105, 2, 1, 10, "energi"), 2, 100, 0),
       Position(InstrumentSnapshot("B", 300, 1, 1, 10, "None"), 1, 0, 0),
       Position(InstrumentSnapshot("E", 330, 3, 3, 10, "finans"), 1, 300, 0) >>

CashValues == { Units(-50), Units(200), Units(1000) }

\* The lists of at most n members of a catalogue, in catalogue order.
PickUpTo(catalogue, n) ==
    LET picks == { S \in SUBSET (1..Len(catalogue)) : Cardinality(S) <= n }
        nth(S, k) == CHOOSE i \in S : Cardinality({ j \in S : j < i }) = k - 1
    IN  { [ k \in 1..Cardinality(S) |-> catalogue[nth(S, k)] ] : S \in picks }

\* fetch_instruments
InstrumentLists == PickUpTo(InstrumentCatalogue, MaxInstruments)

\* fetch_portfolio: Portfolio(cash=...) with the positions appended;
\* last_trade_time keeps its default None.
Portfolios ==
    { Portfolio(ps, c, None) :
        ps \in PickUpTo(PositionCatalogue, MaxPositions), c \in CashValues }

\* Portfolios a caller may pass to estimate_portfolio_risk: those above, with
\* a position in an instrument without a price and a cash balance of 0 added.
RiskPositionCatalogue ==
    PositionCatalogue
        \o << Position(InstrumentSnapshot("C", 0, 3, 3, 10, "energi"), 1, 0, 0) >>

RiskPortfolios ==
    { Portfolio(ps, c, None) :
        ps \in PickUpTo(RiskPositionCatalogue, MaxPositions),
        c \in CashValues \cup { 0 } }

\* Times and portfolios a caller may pass to required_weekly_trade: a
\* portfolio that has never traded, or last traded on any of the days.
Days == 0..MaxDays

TradedPortfolios ==
    { Portfolio(ps, Units(200), last) :
        ps \in PickUpTo(PositionCatalogue, 1),
        last \in { None } \cup { Some(d) : d \in Days } }

\* Candidates a caller may pass to diversify_candidates or evaluate, all of
\* them priced and within the risk threshold: A, G and H of one sector (H
\* with the growth of A), B without a sector, and F, which has an empty
\* sector and the growth of B.
CandidateCatalogue ==
    << InstrumentCatalogue[1],
       InstrumentCatalogue[2],
       InstrumentSnapshot("F", 50, 1, 1, 10, ""),
       InstrumentSnapshot("G", 100, 3, 1, 10, "energi"),
       InstrumentSnapshot("H", 100, 2, 1, 10, "energi") >>

\* The lists of at most n distinct members of a catalogue, in any order.
ArrangeUpTo(catalogue, n) ==
    { s \in SeqsUpTo(Range(catalogue), n) :
        \A i, j \in 1..Len(s) : i # j => s[i] # s[j] }

CandidateLists == ArrangeUpTo(CandidateCatalogue, MaxCandidates)

PerSectorLimits == 0..MaxPerSector

\* Symbols a caller may pass to _execute_sales; "Z" is never held.
SymbolLists == SeqsUpTo({ "A", "Z" }, MaxSells)

----------------------------------------------------------------------------
(* portfolio_manager.py *)

TradeLogEntry(timestamp, action, symbol, quantity, price, note) ==
    [ timestamp |-> timestamp, action |-> action, symbol |-> symbol,
      quantity |-> quantity, price |-> price, note |-> note ]

\* Fault of log_append: the entry is put in front.
log_prepend(log, entry) == << entry >> \o log

\* self.trade_log.append(entry)
log_append(log, entry) == Append(log, entry)

SellNote == "Maloppnaelse utloste salg"
BuyNote == "Strategivalg basert pa forventet vekst"

\* Fault of Order: the side is not passed on and place_order's default,
\* "buy", is what the brokerage gets.
Order_default_side(side, symbol, quantity) ==
    [ side |-> "buy", symbol |-> symbol, quantity |-> quantity ]

Order(side, symbol, quantity) ==
    [ side |-> side, symbol |-> symbol, quantity |-> quantity ]

\* The report is kept as its list of lines (the text is the lines joined by
\* newlines), and a line as the list of its space-separated fields.
ReportHeader == << << "Ukentlig rapport" >>, << "================" >>, << >> >>

NoTradesLine == << "Ingen handler denne uken." >>

\* "{timestamp:%Y-%m-%d %H:%M} {action} {symbol} x{quantity} til {price:.2f}
\* NOK - {note}"; the prices of the model are whole numbers.
format_entry(entry) ==
    << ToString(entry.timestamp), entry.action, entry.symbol,
       "x" \o ToString(entry.quantity), "til",
       ToString(entry.price) \o ".00", "NOK", "-", entry.note >>

entry_lines(log) == [ i \in 1..Len(log) |-> format_entry(log[i]) ]

\* PortfolioManager.generate_weekly_summary, on the manager's own log.
generate_weekly_summary(log) ==
    IF log = << >>
    THEN Append(ReportHeader, NoTradesLine)
    ELSE ReportHeader \o entry_lines(log)

\* Fault of render_report: the closing line is added whatever the log holds.
render_report_closing_line(log) ==
    Append(ReportHeader \o entry_lines(log), NoTradesLine)

\* WeeklyReporter.render_report (reporting.py): the sentinel is added when
\* the loop has added no line.
render_report(log) ==
    LET lines == ReportHeader \o entry_lines(log)
    IN  IF Len(lines) = 3 THEN Append(lines, NoTradesLine) ELSE lines

\* Fault-free variant of the lookup below: the name resolves to the client's
\* estimate_total_buy_cost.
estimate_trade_cost_resolved(price, quantity) ==
    [ raised |-> FALSE, value |-> estimate_total_buy_cost(price, quantity) ]

\* self.client.estimate_trade_cost(price, quantity): NordnetClient (a slots
\* dataclass) defines estimate_trade_fee, estimate_total_buy_cost and
\* estimate_net_sell_proceeds, and no estimate_trade_cost: the attribute
\* lookup raises AttributeError before anything is computed.
estimate_trade_cost(price, quantity) ==
    [ raised |-> TRUE, value |-> 0 ]

\* Faults of sale_proceeds: the amount debited; the fee taken off.
sale_proceeds_debited(quantity, price) == 0 - Units(quantity * price)

sale_proceeds_net(quantity, price) ==
    Units(quantity * price) - estimate_trade_fee(price, quantity)

\* Fault of sale_proceeds: the quantity is left out.
sale_proceeds_per_unit(quantity, price) == Units(price)

\* quantity * price, credited to cash by a sale (in 1/RateDen).
sale_proceeds(quantity, price) == Units(quantity * price)

\* Fault of available_cash: the balance as fetched, before the sales.
available_cash_stale(pf) == fetched.cash

\* available_cash = portfolio.cash, read when _execute_purchases starts.
available_cash(pf) == pf.cash

\* max(int(per_trade_budget // price), 0), the budget being num/den units.
affordable_quantity(budget, price) ==
    Max(budget.num \div (budget.den * Units(price)), 0)

NoBudget == [ num |-> 0, den |-> 1 ]
NoPortfolio == Portfolio(<< >>, 0, None)

NoDecision == TradeDecision(<< >>, << >>, NoReason)

\* No function has been called by itself yet.
NoCall == [ name |-> "none" ]

\* Fault of Raise: the exception is noted and the loop carries on.
Raise_swallowed(name) ==
    /\ pc' = pc
    /\ exception' = name

\* An exception leaves the loop it was raised in and run_daily_cycle.
Raise(name) ==
    /\ pc' = "raised"
    /\ exception' = name

\* MomentumGrowthStrategy.__init__(self, targets, fees) called with the given
\* positional arguments: a call that does not bind both parameters raises
\* TypeError before the body runs.
MomentumGrowthStrategy_init(args) ==
    [ raised |-> Len(args) # 2 ]

\* PortfolioManager.__init__, line 32: MomentumGrowthStrategy(targets).
PortfolioManager_init(client, targets, fees) ==
    MomentumGrowthStrategy_init(<< targets >>)

\* The manager as PortfolioManager.__init__ leaves it (lines 31-34): an empty
\* trade log and a strategy whose context holds the targets and no
\* last-rebalance time (MomentumGrowthStrategy.__init__, strategy.py 34-36).
\* The cadence is any non-negative number of ticks.
Init ==
    /\ cadence \in 0..MaxCadence
    /\ last_rebalance = None
    /\ now = 0
    /\ decision = NoDecision
    /\ trade_log = << >>
    /\ orders = << >>
    /\ pc = "idle"
    /\ exception = "none"
    /\ fetched = NoPortfolio
    /\ instruments = << >>
    /\ portfolio = NoPortfolio
    /\ sell_queue = << >>
    /\ buy_queue = << >>
    /\ per_trade_budget = NoBudget
    /\ prev_rebalance = None
    /\ mark = [ log |-> 0, orders |-> 0 ]
    /\ call = NoCall

\* MomentumGrowthStrategy.evaluate called on the strategy object.
evaluate_call ==
    /\ pc = "idle"
    /\ \E t \in Times, pf \in Portfolios, insts \in InstrumentLists :
         LET r == evaluate(last_rebalance, cadence, t, pf, insts)
         IN  /\ now' = t
             /\ decision' = r.decision
             /\ last_rebalance' = r.last_rebalance
    /\ prev_rebalance' = last_rebalance
    /\ UNCHANGED << call, cadence, trade_log, orders, pc, exception, fetched,
                    instruments, portfolio, sell_queue, buy_queue,
                    per_trade_budget, mark >>

\* run_daily_cycle, lines 39-41: fetch both snapshots and evaluate.
\* Either fetch may fail (raise_for_status, a missing account id).
run_daily_cycle ==
    /\ pc = "idle"
    /\ Len(trade_log) < MaxLog
    /\ \E t \in Times :
         /\ now' = t
         /\ \/ /\ Raise("HTTPError")
               /\ UNCHANGED << decision, last_rebalance, fetched, instruments,
                               portfolio, sell_queue, prev_rebalance >>
            \/ \E pf \in Portfolios, insts \in InstrumentLists :
                 LET r == evaluate(last_rebalance, cadence, t, pf, insts)
                 IN  /\ fetched' = pf
                     /\ instruments' = insts
                     /\ portfolio' = pf
                     /\ decision' = r.decision
                     /\ last_rebalance' = r.last_rebalance
                     /\ sell_queue' = r.decision.sell_symbols
                     /\ prev_rebalance' = last_rebalance
                     /\ pc' = "sales"
                     /\ UNCHANGED exception
    /\ mark' = [ log |-> Len(trade_log), orders |-> Len(orders) ]
    /\ UNCHANGED << call, cadence, trade_log, orders, buy_queue, per_trade_budget >>

\* _execute_sales, one pass of the loop of lines 49-66.  place_order may
\* fail (raise_for_status) after the position has been removed.
execute_sales ==
    /\ pc = "sales"
    /\ sell_queue # << >>
    /\ \E accepted \in BOOLEAN :
         LET symbol == Head(sell_queue)
             r      == remove_position(portfolio, symbol, now)
         IN  IF r.removed = None
             THEN /\ sell_queue' = Tail(sell_queue)
                  /\ UNCHANGED << portfolio, trade_log, orders, pc, exception >>
             ELSE LET position == r.removed[1]
                      quantity == position.quantity
                      price    == position.instrument.last_price
                  IN  IF ~accepted
                      THEN /\ portfolio' = r.portfolio
                           /\ Raise("HTTPError")
                           /\ UNCHANGED << trade_log, orders, sell_queue >>
                      ELSE /\ orders' = Append(orders, Order("sell", symbol, quantity))
                           /\ trade_log' = log_append(trade_log,
                                TradeLogEntry(now, "SELL", symbol, quantity, price, SellNote))
                           /\ portfolio' = [ r.portfolio EXCEPT
                                !.cash = r.portfolio.cash + sale_proceeds(quantity, price) ]
                           /\ sell_queue' = Tail(sell_queue)
                           /\ UNCHANGED << pc, exception >>
    /\ UNCHANGED << call, cadence, last_rebalance, now, decision, fetched, instruments,
                    buy_queue, per_trade_budget, prev_rebalance, mark >>

\* _execute_sales(symbols, portfolio) called with any symbols, held or not.
\* The symbols passed are kept in decision.sell_symbols.
execute_sales_call ==
    /\ pc = "idle"
    /\ Len(trade_log) < MaxLog
    /\ \E t \in Times, pf \in Portfolios, symbols \in SymbolLists :
         /\ now' = t
         /\ fetched' = pf
         /\ portfolio' = pf
         /\ decision' = TradeDecision(<< >>, symbols, NoReason)
         /\ sell_queue' = symbols
    /\ pc' = "sales"
    /\ mark' = [ log |-> Len(trade_log), orders |-> Len(orders) ]
    /\ UNCHANGED << call, cadence, last_rebalance, trade_log, orders, exception,
                    instruments, buy_queue, per_trade_budget, prev_rebalance >>

\* The loop of _execute_sales is done and the direct call returns.
execute_sales_return ==
    /\ pc = "sales"
    /\ sell_queue = << >>
    /\ pc' = "return"
    /\ UNCHANGED << call, cadence, last_rebalance, now, decision, trade_log, orders,
                    exception, fetched, instruments, portfolio, sell_queue,
                    buy_queue, per_trade_budget, prev_rebalance, mark >>

\* _execute_purchases, lines 71-76: entered when the sales loop is done.
execute_purchases ==
    /\ pc = "sales"
    /\ sell_queue = << >>
    /\ LET cash == available_cash(portfolio)
           candidate_list == decision.buy_candidates
       IN  IF cash <= 0
           THEN /\ pc' = "return"
                /\ UNCHANGED << buy_queue, per_trade_budget >>
           ELSE /\ pc' = "purchases"
                /\ buy_queue' = candidate_list
                /\ per_trade_budget' =
                     [ num |-> cash, den |-> Max(Len(candidate_list), 1) ]
    /\ UNCHANGED << call, cadence, last_rebalance, now, decision, trade_log, orders,
                    exception, fetched, instruments, portfolio, sell_queue,
                    prev_rebalance, mark >>

\* _execute_purchases, one pass of the loop of lines 78-109; the loop's end
\* (no candidate left) falls through to line 46.
execute_purchases_candidate ==
    /\ pc = "purchases"
    /\ \E accepted \in BOOLEAN :
         IF buy_queue = << >> \/ per_trade_budget.num <= 0
         THEN /\ pc' = "return"
              /\ UNCHANGED << portfolio, trade_log, orders, exception, buy_queue >>
         ELSE
         LET candidate == Head(buy_queue)
             price     == candidate.last_price
         IN  IF price = 0
             THEN /\ Raise("ZeroDivisionError")
                  /\ UNCHANGED << portfolio, trade_log, orders, buy_queue >>
             ELSE LET quantity == affordable_quantity(per_trade_budget, price)
                      total_cost == estimate_trade_cost(price, quantity)
                  IN  IF quantity <= 0
                      THEN /\ buy_queue' = Tail(buy_queue)
                           /\ UNCHANGED << portfolio, trade_log, orders, pc, exception >>
                      ELSE IF total_cost.raised
                      THEN /\ Raise("AttributeError")
                           /\ UNCHANGED << portfolio, trade_log, orders, buy_queue >>
                      ELSE IF total_cost.value > portfolio.cash
                      THEN /\ buy_queue' = Tail(buy_queue)
                           /\ UNCHANGED << portfolio, trade_log, orders, pc, exception >>
                      ELSE IF ~accepted
                      THEN /\ Raise("HTTPError")
                           /\ UNCHANGED << portfolio, trade_log, orders, buy_queue >>
                      ELSE /\ orders' = Append(orders,
                                Order("buy", candidate.symbol, quantity))
                           /\ portfolio' = add_position(
                                [ portfolio EXCEPT !.cash = portfolio.cash - total_cost.value ],
                                Position(candidate, quantity, price, now))
                           /\ trade_log' = log_append(trade_log,
                                TradeLogEntry(now, "BUY", candidate.symbol, quantity,
                                              price, BuyNote))
                           /\ buy_queue' = Tail(buy_queue)
                           /\ UNCHANGED << pc, exception >>
    /\ UNCHANGED << call, cadence, last_rebalance, now, decision, fetched, instruments,
                    sell_queue, per_trade_budget, prev_rebalance, mark >>

\* The call is over: run_daily_cycle returned (portfolio, decision) at line
\* 46, or the exception reached the caller.  The call's locals are gone; the
\* strategy context and the trade log stay with the manager.
run_daily_cycle_exit ==
    /\ pc \in { "return", "raised" }
    /\ pc' = "idle"
    /\ exception' = "none"
    /\ now' = 0
    /\ decision' = NoDecision
    /\ fetched' = NoPortfolio
    /\ instruments' = << >>
    /\ portfolio' = NoPortfolio
    /\ sell_queue' = << >>
    /\ buy_queue' = << >>
    /\ per_trade_budget' = NoBudget
    /\ prev_rebalance' = None
    /\ mark' = [ log |-> Len(trade_log), orders |-> Len(orders) ]
    /\ UNCHANGED << call, cadence, last_rebalance, trade_log, orders >>

\* diversify_candidates(candidates, max_per_sector) called on its own.  The
\* function keeps nothing from one call to the next: one call is followed.
diversify_candidates_call ==
    /\ pc = "idle"
    /\ call = NoCall
    /\ \E candidates \in CandidateLists, limit \in PerSectorLimits :
         call' = [ name |-> "diversify_candidates",
                   args |-> [ candidates |-> candidates, max_per_sector |-> limit ],
                   result |-> diversify_candidates(candidates, limit) ]
    /\ UNCHANGED << cadence, last_rebalance, now, decision, trade_log, orders, pc,
                    exception, fetched, instruments, portfolio, sell_queue,
                    buy_queue, per_trade_budget, prev_rebalance, mark >>

\* estimate_portfolio_risk(portfolio, fees) called on its own.
estimate_portfolio_risk_call ==
    /\ pc = "idle"
    /\ call = NoCall
    /\ \E pf \in RiskPortfolios :
         call' = [ name |-> "estimate_portfolio_risk",
                   args |-> [ portfolio |-> pf ],
                   result |-> estimate_portfolio_risk(pf) ]
    /\ UNCHANGED << cadence, last_rebalance, now, decision, trade_log, orders, pc,
                    exception, fetched, instruments, portfolio, sell_queue,
                    buy_queue, per_trade_budget, prev_rebalance, mark >>

\* MomentumGrowthStrategy.evaluate called for the first time on a strategy,
\* with an instrument list in any order and an empty portfolio, by a caller
\* that keeps what it returned.
evaluate_instruments_call ==
    /\ pc = "idle"
    /\ call = NoCall
    /\ last_rebalance = None
    /\ \E t \in Times, insts \in CandidateLists :
         LET r == evaluate(last_rebalance, cadence, t, NoPortfolio, insts)
         IN  /\ call' = [ name |-> "evaluate",
                          args |-> [ now |-> t, instruments |-> insts ],
                          result |-> r.decision ]
             /\ last_rebalance' = r.last_rebalance
    /\ UNCHANGED << cadence, now, decision, trade_log, orders, pc, exception,
                    fetched, instruments, portfolio, sell_queue, buy_queue,
                    per_trade_budget, prev_rebalance, mark >>

\* Entries the cycles of a run may leave in the log.
LogEntries ==
    { TradeLogEntry(0, "SELL", sym, 1, 100, SellNote) : sym \in { "A", "B" } }
      \cup { TradeLogEntry(0, "BUY", sym, 1, 100, BuyNote) : sym \in { "A", "B" } }

\* A trade of some cycle, as far as the log is concerned: the order is
\* accepted and the entry appended (lines 55-65, 91-109).
trade_logged ==
    /\ pc = "idle"
    /\ call = NoCall
    /\ Len(trade_log) < MaxEntries
    /\ \E entry \in LogEntries :
         /\ orders' = Append(orders, Order(IF entry.action = "SELL" THEN "sell" ELSE "buy",
                                           entry.symbol, entry.quantity))
         /\ trade_log' = log_append(trade_log, entry)
    /\ UNCHANGED << call, cadence, last_rebalance, now, decision, pc, exception,
                    fetched, instruments, portfolio, sell_queue, buy_queue,
                    per_trade_budget, prev_rebalance, mark >>

\* reporter.render_report(manager.trade_log), as main.py calls it.
render_report_call ==
    /\ pc = "idle"
    /\ call = NoCall
    /\ call' = [ name |-> "render_report",
                 args |-> [ trade_log |-> trade_log ],
                 result |-> render_report(trade_log) ]
    /\ UNCHANGED << cadence, last_rebalance, now, decision, trade_log, orders, pc,
                    exception, fetched, instruments, portfolio, sell_queue,
                    buy_queue, per_trade_budget, prev_rebalance, mark >>

\* manager.generate_weekly_summary()
generate_weekly_summary_call ==
    /\ pc = "idle"
    /\ call = NoCall
    /\ call' = [ name |-> "generate_weekly_summary",
                 args |-> [ trade_log |-> trade_log ],
                 result |-> generate_weekly_summary(trade_log) ]
    /\ UNCHANGED << cadence, last_rebalance, now, decision, trade_log, orders, pc,
                    exception, fetched, instruments, portfolio, sell_queue,
                    buy_queue, per_trade_budget, prev_rebalance, mark >>

\* strategy.required_weekly_trade(now, portfolio)
required_weekly_trade_call ==
    /\ pc = "idle"
    /\ call = NoCall
    /\ \E t \in Days, pf \in TradedPortfolios :
         call' = [ name |-> "required_weekly_trade",
                   args |-> [ now |-> t, portfolio |-> pf ],
                   result |-> required_weekly_trade(t, pf) ]
    /\ UNCHANGED << cadence, last_rebalance, now, decision, trade_log, orders, pc,
                    exception, fetched, instruments, portfolio, sell_queue,
                    buy_queue, per_trade_budget, prev_rebalance, mark >>

\* strategy.evaluate(now, portfolio, instruments) called with the time and
\* the portfolio that required_weekly_trade was just asked about; the
\* arguments are kept in `fetched` and `instruments`.
evaluate_after_weekly_check ==
    /\ pc = "idle"
    /\ call # NoCall
    /\ call.name = "required_weekly_trade"
    /\ decision = NoDecision
    /\ \E insts \in InstrumentLists :
         LET t  == call.args.now
             pf == call.args.portfolio
             r  == evaluate(last_rebalance, cadence, t, pf, insts)
         IN  /\ now' = t
             /\ fetched' = pf
             /\ instruments' = insts
             /\ decision' = r.decision
             /\ last_rebalance' = r.last_rebalance
    /\ prev_rebalance' = last_rebalance
    /\ UNCHANGED << call, cadence, trade_log, orders, pc, exception, portfolio,
                    sell_queue, buy_queue, per_trade_budget, mark >>

NextStrategy == evaluate_call

SpecStrategy == Init /\ [][NextStrategy]_vars

Next ==
    \/ run_daily_cycle
    \/ execute_sales
    \/ execute_purchases
    \/ execute_purchases_candidate
    \/ run_daily_cycle_exit

Spec == Init /\ [][Next]_vars

NextSales ==
    \/ execute_sales_call
    \/ execute_sales
    \/ execute_sales_return
    \/ run_daily_cycle_exit

SpecSales == Init /\ [][NextSales]_vars

NextRisk ==
    \/ estimate_portfolio_risk_call
    \/ diversify_candidates_call
    \/ evaluate_instruments_call

SpecRisk == Init /\ [][NextRisk]_vars

NextWeekly ==
    \/ required_weekly_trade_call
    \/ evaluate_after_weekly_check

SpecWeekly == Init /\ [][NextWeekly]_vars

NextReport ==
    \/ trade_logged
    \/ render_report_call
    \/ generate_weekly_summary_call

SpecReport == Init /\ [][NextReport]_vars

----------------------------------------------------------------------------
(* Properties of the strategy (checked under SpecStrategy) *)

Evaluated == decision.reason.kind # "none"

\* C1: an evaluate(now, ...) made when a last-rebalance time is stored and
\* now - last_rebalance is less than the cadence returns a decision with no
\* buy candidates and no sell symbols and leaves last_rebalance as it was.
C1_WithinCadenceNoOp ==
    (Evaluated /\ prev_rebalance # None /\ now - prev_rebalance[1] < cadence)
        => /\ decision.buy_candidates = << >>
           /\ decision.sell_symbols = << >>
           /\ last_rebalance = prev_rebalance

\* A second call inside the cadence window, with something to sell or buy
\* had the rebalance been due, has returned.
C1_Witness ==
    /\ Evaluated
    /\ prev_rebalance # None
    /\ now - prev_rebalance[1] < cadence
    /\ now > prev_rebalance[1]
    /\ decision.reason = NotDueReason

\* C2: should_rebalance(now) is true exactly when the strategy has never
\* rebalanced or now - last_rebalance >= cadence (equality counts as due), and
\* evaluate rebalances and sets last_rebalance to now in exactly that case.
C2_DueExactly ==
    Evaluated =>
        LET due == prev_rebalance = None \/ now - prev_rebalance[1] >= cadence
        IN  /\ should_rebalance(prev_rebalance, cadence, now) = due
            /\ due => /\ last_rebalance = Some(now)
                      /\ decision.reason.kind = "summary"
            /\ ~due => /\ last_rebalance = prev_rebalance
                       /\ decision.reason.kind = "not_due"

\* A call exactly one cadence after the last rebalance has rebalanced.
C2_Witness ==
    /\ Evaluated
    /\ cadence > 0
    /\ prev_rebalance # None
    /\ now - prev_rebalance[1] = cadence
    /\ last_rebalance = Some(now)
    /\ decision.reason.kind = "summary"

\* C3: whatever `now` values are passed, the stored last-rebalance time once
\* set never moves to an earlier time (the cadence being non-negative).
C3_LastRebalanceMonotone ==
    (Evaluated /\ prev_rebalance # None)
        => /\ last_rebalance # None
           /\ last_rebalance[1] >= prev_rebalance[1]

\* A call with a `now` earlier than the stored last-rebalance time has returned.
C3_Witness ==
    /\ Evaluated
    /\ prev_rebalance # None
    /\ now < prev_rebalance[1]
    /\ last_rebalance = prev_rebalance

----------------------------------------------------------------------------
(* Properties of the cycle (checked under Spec, C8 under SpecSales) *)

SymbolsOf(positions) == [ i \in 1..Len(positions) |-> positions[i].instrument.symbol ]

Held(positions, symbol) == symbol \in Range(SymbolsOf(positions))

UniqueSymbols(positions) ==
    \A i, j \in 1..Len(positions) :
        i # j => positions[i].instrument.symbol # positions[j].instrument.symbol

FirstHeld(positions, symbol) ==
    CHOOSE i \in 1..Len(positions) :
        /\ positions[i].instrument.symbol = symbol
        /\ \A j \in 1..(i - 1) : positions[j].instrument.symbol # symbol

\* What the call in progress has appended to the log and had accepted.
CallLog == SubSeq(trade_log, mark.log + 1, Len(trade_log))
CallOrders == SubSeq(orders, mark.orders + 1, Len(orders))

RECURSIVE SoldValue(_)
SoldValue(entries) ==
    IF entries = << >> THEN 0
    ELSE (IF Head(entries).action = "SELL"
          THEN Head(entries).quantity * Head(entries).price ELSE 0)
         + SoldValue(Tail(entries))

\* C4: if the fetched portfolio has cash >= 0, cash is >= 0 after every sell
\* and buy step of run_daily_cycle.
C4_CashNeverNegative ==
    fetched.cash >= 0 => portfolio.cash >= 0

\* A cycle that credited a sale has gone through its purchase phase.
C4_Witness ==
    /\ pc = "return"
    /\ fetched.cash >= 0
    /\ portfolio.cash > fetched.cash
    /\ decision.buy_candidates # << >>

C6_SalesBeforePurchases ==
    /\ \A i, j \in 1..Len(CallOrders) :
         (i < j /\ CallOrders[i].side = "buy") => CallOrders[j].side # "sell"
    /\ pc = "purchases" =>
         /\ per_trade_budget.num = fetched.cash + Units(SoldValue(CallLog))
         /\ per_trade_budget.den = Max(Len(decision.buy_candidates), 1)
         /\ sell_queue = << >>

\* Two sales were credited and the budget for the candidates has been set.
C6_Witness ==
    /\ pc = "purchases"
    /\ Len(CallLog) = 2
    /\ SoldValue(CallLog) > 0
    /\ buy_queue # << >>

\* A pass of the sales loop over a symbol that is held / is not held.
SalePending(held) ==
    /\ pc = "sales"
    /\ sell_queue # << >>
    /\ Held(portfolio.positions, Head(sell_queue)) = held

\* C7: a sale of a held symbol whose order the brokerage accepts removes that
\* one position, places exactly one sell order for its quantity, appends
\* exactly one SELL entry with the symbol, quantity and last price, and adds
\* exactly quantity * last price to cash, no fee taken off.
C7_SaleBookkeeping ==
    [][ (SalePending(TRUE) /\ pc' = "sales") =>
          LET symbol   == Head(sell_queue)
              idx      == FirstHeld(portfolio.positions, symbol)
              position == portfolio.positions[idx]
              entry    == trade_log'[Len(trade_log')]
          IN  /\ portfolio'.positions = RemoveAt(portfolio.positions, idx)
              /\ orders' = Append(orders, Order("sell", symbol, position.quantity))
              /\ Len(trade_log') = Len(trade_log) + 1
              /\ SubSeq(trade_log', 1, Len(trade_log)) = trade_log
              /\ entry.action = "SELL"
              /\ entry.symbol = symbol
              /\ entry.quantity = position.quantity
              /\ entry.price = position.instrument.last_price
              /\ portfolio'.cash = portfolio.cash
                   + Units(position.quantity * position.instrument.last_price)
      ]_vars

\* A sale has just been booked: the last entry is its SELL entry and cash
\* has grown by the value sold.
C7_Witness ==
    /\ pc = "sales"
    /\ Len(CallLog) = 1
    /\ CallLog[1].action = "SELL"
    /\ Len(CallOrders) = 1
    /\ Len(portfolio.positions) = Len(fetched.positions) - 1
    /\ portfolio.cash = fetched.cash + Units(CallLog[1].quantity * CallLog[1].price)
    /\ CallLog[1].quantity * CallLog[1].price > 0

\* C8: a sell symbol that matches no held position is skipped: no order, no
\* log entry, cash and positions unchanged, nothing raised, and the loop goes
\* on to the remaining symbols.
C8_StaleSymbolSkipped ==
    [][ SalePending(FALSE) =>
          /\ UNCHANGED << orders, trade_log, portfolio, exception >>
          /\ pc' = "sales"
          /\ sell_queue' = Tail(sell_queue)
      ]_vars

\* A call whose first symbol was not held has gone on to sell its second.
C8_Witness ==
    /\ pc = "return"
    /\ Len(decision.sell_symbols) = 2
    /\ ~Held(fetched.positions, decision.sell_symbols[1])
    /\ Held(fetched.positions, decision.sell_symbols[2])
    /\ Len(CallLog) = 1
    /\ CallLog[1].symbol = decision.sell_symbols[2]

PricesOf(candidates) == [ i \in 1..Len(candidates) |-> candidates[i].last_price ]

QuantitiesOf(positions) == [ i \in 1..Len(positions) |-> positions[i].quantity ]

\* C9: in the buy phase each candidate's quantity is floor((C / n) / price),
\* and a purchase debits price * quantity + fixed fee + variable rate * price *
\* quantity, adds one position and one BUY entry; with cash 1000, nothing
\* held and candidates priced 100 and 300 the cycle buys 5 and 1 units.
C9_ExampleBought ==
    ( /\ pc \in { "return", "raised" }
      /\ exception # "HTTPError"
      /\ fetched = Portfolio(<< >>, Units(1000), None)
      /\ PricesOf(decision.buy_candidates) = << 100, 300 >> )
        => /\ QuantitiesOf(portfolio.positions) = << 5, 1 >>
           /\ portfolio.cash = Units(1000)
                - estimate_total_buy_cost(100, 5) - estimate_total_buy_cost(300, 1)
           /\ Len(CallLog) = 2

\* C10: a candidate whose quantity is 0, or whose fee-inclusive cost exceeds
\* the cash remaining at that moment, is skipped: no order, no change of the
\* portfolio, no log entry, and the loop goes on with the next candidate.
C10_UnaffordableSkipped ==
    [][ ( /\ pc = "purchases"
          /\ buy_queue # << >>
          /\ LET price    == Head(buy_queue).last_price
                 quantity == per_trade_budget.num \div (per_trade_budget.den * Units(price))
             IN  \/ quantity = 0
                 \/ estimate_total_buy_cost(price, quantity) > portfolio.cash )
        => /\ UNCHANGED << orders, trade_log, portfolio, exception >>
           /\ pc' = "purchases"
           /\ buy_queue' = Tail(buy_queue)
      ]_vars

\* C11: when a brokerage call (a fetch or place_order) fails during a cycle,
\* the failure reaches the caller and the cycle attempts nothing more: the
\* failing step places no order and writes no entry, and the log entries,
\* the cash and the removals of the positions of the trades made before it
\* stay as they were; the only step after it is the exit to the caller.
C11_FailureAbortsNoRollback ==
    [][ /\ (pc # "raised" /\ exception' = "HTTPError")
            => /\ pc' = "raised"
               /\ UNCHANGED << trade_log, orders >>
               /\ portfolio'.cash = portfolio.cash
               /\ Len(portfolio'.positions) <= Len(portfolio.positions)
               /\ portfolio'.cash = fetched'.cash + Units(SoldValue(CallLog))
               /\ Len(portfolio'.positions)
                     <= Len(fetched'.positions) - Len(CallLog)
        /\ pc = "raised"
            => /\ pc' = "idle"
               /\ UNCHANGED << trade_log, orders, last_rebalance >>
      ]_vars

\* The second sell order of a cycle was rejected after the first sale had
\* been booked: its entry, its order and its proceeds are still there.
C11_Witness ==
    /\ pc = "raised"
    /\ exception = "HTTPError"
    /\ Len(CallLog) = 1
    /\ Len(CallOrders) = 1
    /\ CallLog[1].action = "SELL"
    /\ SoldValue(CallLog) > 0
    /\ portfolio.cash = fetched.cash + Units(SoldValue(CallLog))
    /\ sell_queue # << >>

\* C12: when every brokerage call succeeds, run_daily_cycle runs to its
\* return statement for any fetched portfolio and instrument list: a cycle
\* ends in an exception only if a brokerage call failed.
C12_CycleCompletes ==
    pc = "raised" => exception = "HTTPError"

----------------------------------------------------------------------------
(* Properties of the decision (checked on the cycle's evaluate, under Spec) *)

\* The symbols, in order, of the positions whose return (last price - entry
\* price) / entry price, taken as 0 when the entry price is 0, is at least
\* the weekly growth target.
RECURSIVE SymbolsAtTarget(_)
SymbolsAtTarget(positions) ==
    IF positions = << >> THEN << >>
    ELSE LET p   == Head(positions)
             hit == IF p.entry_price = 0
                    THEN 0 >= weekly_growth_target
                    ELSE (p.instrument.last_price - p.entry_price) * 100
                           >= weekly_growth_target * p.entry_price
         IN  (IF hit THEN << p.instrument.symbol >> ELSE << >>)
               \o SymbolsAtTarget(Tail(positions))

Rebalanced == pc # "idle" /\ decision.reason.kind = "summary"

\* C13: the sell_symbols of a rebalancing evaluate are exactly the symbols of
\* the held positions whose unrealised return is >= the weekly growth target,
\* in portfolio order; a return equal to the target counts, and a position
\* with entry price 0 has return 0 and raises nothing.
C13_SellSymbolsAtTarget ==
    Rebalanced => decision.sell_symbols = SymbolsAtTarget(fetched.positions)

\* A portfolio holding a position exactly at the target and one with entry
\* price 0 was evaluated: the first is to be sold, the second is not.
C13_Witness ==
    /\ Rebalanced
    /\ Len(fetched.positions) = 2
    /\ LET p == fetched.positions[1]
           q == fetched.positions[2]
       IN  /\ p.entry_price > 0
           /\ (p.instrument.last_price - p.entry_price) * 100
                 = weekly_growth_target * p.entry_price
           /\ q.entry_price = 0
           /\ decision.sell_symbols = << p.instrument.symbol >>

\* The members of a list, in order, that satisfy Keep.
Filter(list, Keep(_)) == SelectSeq(list, Keep)

\* C14: every buy candidate of a decision returned by evaluate has a last
\* price > 0 and a risk score <= the maximum volatility; the list is the
\* diversified list of the positive-price instruments without the
\* instruments above the threshold, order kept; and the buy phase never
\* divides by a zero price.
C14_BuyCandidatesFiltered ==
    /\ Rebalanced =>
          LET priced == Filter(instruments, LAMBDA i : i.last_price > 0)
              within(c) == score_instrument_risk(c) <= max_portfolio_volatility
          IN  /\ \A i \in 1..Len(decision.buy_candidates) :
                    /\ decision.buy_candidates[i].last_price > 0
                    /\ within(decision.buy_candidates[i])
              /\ decision.buy_candidates
                    = Filter(diversify_candidates(priced, max_per_sector), within)
    /\ exception # "ZeroDivisionError"

\* The instruments fetched held one without a price next to a sound one:
\* the purchase phase has only the latter to buy.
C14_Witness ==
    /\ Rebalanced
    /\ pc = "purchases"
    /\ Len(instruments) = 2
    /\ \E i \in 1..2 : instruments[i].last_price = 0
    /\ Len(decision.buy_candidates) = 1
    /\ buy_queue = decision.buy_candidates

----------------------------------------------------------------------------
(* Properties of the risk functions (checked under SpecRisk) *)

\* The sector an instrument counts under: its own, or one common bucket for
\* the instruments that have none.
Bucket(c) == IF c.sector \in { "None", "" } THEN "(no sector)" ELSE c.sector

CountInBucket(list, b) ==
    Cardinality({ i \in 1..Len(list) : Bucket(list[i]) = b })

AtMostPerSector(list, limit) ==
    \A i \in 1..Len(list) : CountInBucket(list, Bucket(list[i])) <= limit

Diversified == call.name = "diversify_candidates"

EvaluatedInstruments == call.name = "evaluate"

\* C15: for every list and every max_per_sector >= 0, diversify_candidates
\* returns at most max_per_sector instruments of any one sector, the
\* instruments without a sector counting as one sector; and the buy
\* candidates of a decision hold at most 2 instruments of any one sector.
C15_AtMostPerSector ==
    /\ Diversified => AtMostPerSector(call.result, call.args.max_per_sector)
    /\ EvaluatedInstruments => AtMostPerSector(call.result.buy_candidates, 2)

\* Three instruments of one sector were passed to evaluate and two of them
\* came back.
C15_WitnessDecision ==
    /\ EvaluatedInstruments
    /\ Len(call.args.instruments) = 3
    /\ CountInBucket(call.args.instruments, "energi") = 3
    /\ Len(call.result.buy_candidates) = 2

\* Two instruments without a sector, one with None and one with "", were
\* passed with max_per_sector = 1 and one came back.
C15_Witness ==
    /\ Diversified
    /\ call.args.max_per_sector = 1
    /\ Len(call.args.candidates) = 2
    /\ call.args.candidates[1].sector = "None"
    /\ call.args.candidates[2].sector = ""
    /\ Len(call.result) = 1

IndexIn(list, c) == CHOOSE i \in 1..Len(list) : list[i] = c

\* c ranks before d: greater growth, or equal growth and earlier in the input.
RanksBefore(input, c, d) ==
    LET gc == expected_short_term_growth(c)
        gd == expected_short_term_growth(d)
    IN  gc > gd \/ (gc = gd /\ IndexIn(input, c) < IndexIn(input, d))

\* out is the input's members, in rank order, that have fewer than limit
\* members of their own sector ranking before them.
TopPerSector(input, out, limit) ==
    /\ \A i, j \in 1..Len(out) : i < j => RanksBefore(input, out[i], out[j])
    /\ Range(out) \subseteq Range(input)
    /\ \A c \in Range(input) :
          c \in Range(out)
            <=> Cardinality({ d \in Range(input) :
                                Bucket(d) = Bucket(c) /\ RanksBefore(input, d, c) })
                  < limit

\* C16: the output of diversify_candidates is in descending order of expected
\* short-term growth, equal growths in input order, and it is the greedy
\* selection: a candidate is left out exactly when max_per_sector candidates
\* of its own sector rank before it, so each sector gives its top
\* max_per_sector candidates; evaluate, which sorts before it diversifies,
\* returns the same selection for max_per_sector = 2.
C16_GreedyInGrowthOrder ==
    /\ Diversified =>
          TopPerSector(call.args.candidates, call.result, call.args.max_per_sector)
    /\ EvaluatedInstruments =>
          TopPerSector(call.args.instruments, call.result.buy_candidates,
                       max_per_sector)

\* Two candidates of one sector and of equal growth were passed with
\* max_per_sector = 1, the later one of the catalogue first: it is the one
\* returned.
C16_Witness ==
    /\ Diversified
    /\ call.args.max_per_sector = 1
    /\ Len(call.args.candidates) = 2
    /\ LET c == call.args.candidates[1]
           d == call.args.candidates[2]
       IN  /\ expected_short_term_growth(c) = expected_short_term_growth(d)
           /\ Bucket(c) = Bucket(d)
           /\ c.symbol = "H"
           /\ call.result = << c >>

----------------------------------------------------------------------------
(* Properties of the trade log *)

\* C17: over any sequence of cycles the trade log only grows at its end: no
\* step modifies, removes or reorders an entry already in it, and the log
\* as it was when the cycle began is a prefix of the log at every later
\* point of the cycle.
C17_LogAppendOnly ==
    [][ /\ Len(trade_log') >= Len(trade_log)
        /\ SubSeq(trade_log', 1, Len(trade_log)) = trade_log
        /\ mark'.log <= Len(trade_log')
        /\ (pc # "idle" /\ pc' # "idle")
              => SubSeq(trade_log', 1, mark'.log) = SubSeq(trade_log, 1, mark.log)
      ]_vars

\* A later cycle has added two entries behind the entry of an earlier one.
C17_Witness ==
    /\ pc = "return"
    /\ mark.log = 1
    /\ Len(trade_log) = 3
    /\ trade_log[1].timestamp # trade_log[3].timestamp

Rendered == call.name \in { "render_report", "generate_weekly_summary" }

\* C18: for any trade log the rendered report is the header followed by
\* exactly one line per log entry, in log order, each line carrying the
\* action and the symbol of its entry; the no-trades line is in the report
\* if and only if the log is empty.
C18_ReportLines ==
    Rendered =>
        LET log  == call.args.trade_log
            text == call.result
        IN  /\ Len(text) >= 3
            /\ SubSeq(text, 1, 3) = ReportHeader
            /\ Len(text) = 3 + (IF log = << >> THEN 1 ELSE Len(log))
            /\ log # << >> =>
                  \A i \in 1..Len(log) :
                      /\ text[3 + i][2] = log[i].action
                      /\ text[3 + i][3] = log[i].symbol
            /\ (NoTradesLine \in Range(text)) <=> (log = << >>)

\* A log of a sale and a purchase of different symbols was rendered by
\* render_report.
C18_Witness ==
    /\ call.name = "render_report"
    /\ Len(call.args.trade_log) = 2
    /\ Len(call.result) = 5
    /\ call.result[4][2] = "SELL" /\ call.result[4][3] = "A"
    /\ call.result[5][2] = "BUY" /\ call.result[5][3] = "B"

\* generate_weekly_summary was called on a manager that has not traded.
C18_WitnessEmpty ==
    /\ call.name = "generate_weekly_summary"
    /\ call.args.trade_log = << >>
    /\ call.result = Append(ReportHeader, NoTradesLine)

\* The sum of the positions' values after the fee, none below 0, plus cash.
RECURSIVE TotalNetValue(_, _)
TotalNetValue(positions, cash) ==
    IF positions = << >> THEN cash
    ELSE LET gross == Head(positions).quantity * Head(positions).instrument.last_price
             net   == gross * RateDen - (fixed_fee * RateDen + gross * RateNum)
         IN  (IF net > 0 THEN net ELSE 0) + TotalNetValue(Tail(positions), cash)

RiskEstimated == call.name = "estimate_portfolio_risk"

\* C19: estimate_portfolio_risk returns 0 for all three metrics when the
\* portfolio holds no position, and when the total net value is <= 0; it
\* never divides by zero.
C19_ZeroMetrics ==
    RiskEstimated =>
        LET pf == call.args.portfolio
            m  == call.result
        IN  /\ (pf.positions = << >> \/ TotalNetValue(pf.positions, pf.cash) <= 0)
                  => m = RiskMetrics(Zero, Zero, Zero)
            /\ m.volatility.den # 0
            /\ m.exposure_concentration.den # 0
            /\ m.downside_risk # Zero
                  => \A i \in 1..Len(m.downside_risk.mean_of) :
                         m.downside_risk.mean_of[i].fee_drag.den # 0

\* A portfolio whose only position is worth nothing and whose cash is 0 has
\* a total net value of exactly 0.
C19_Witness ==
    /\ RiskEstimated
    /\ call.args.portfolio.positions # << >>
    /\ TotalNetValue(call.args.portfolio.positions, call.args.portfolio.cash) = 0
    /\ call.result = RiskMetrics(Zero, Zero, Zero)

----------------------------------------------------------------------------
(* Properties of the weekly-trade check (checked under SpecWeekly) *)

WeeklyChecked == call.name = "required_weekly_trade"

\* C20: required_weekly_trade(now, portfolio) is true exactly when the
\* portfolio has no last-trade time or now - last_trade_time is 7 days or
\* more; the call leaves the strategy, the portfolio and the log as they
\* were; and the decision evaluate then makes is the one it makes for the
\* same portfolio without a last-trade time, whatever the check answered.
C20_WeeklyTradeAdvisory ==
    WeeklyChecked =>
        LET t    == call.args.now
            pf   == call.args.portfolio
            last == pf.last_trade_time
        IN  /\ call.result = (last = None \/ t - last[1] >= 7)
            /\ ~Evaluated =>
                  /\ last_rebalance = None
                  /\ trade_log = << >>
                  /\ orders = << >>
                  /\ portfolio = NoPortfolio
            /\ Evaluated =>
                  /\ fetched = pf
                  /\ decision =
                       evaluate(prev_rebalance, cadence, now,
                                [ pf EXCEPT !.last_trade_time = None ],
                                instruments).decision

\* The check answered true on the seventh day after the last trade, and the
\* evaluate that followed found something to sell.
C20_Witness ==
    /\ WeeklyChecked
    /\ call.args.portfolio.last_trade_time # None
    /\ call.args.now - call.args.portfolio.last_trade_time[1] = 7
    /\ call.result = TRUE
    /\ Evaluated
    /\ decision.sell_symbols # << >>

----------------------------------------------------------------------------
(* Further properties of the cycle (checked under Spec) *)

NotDueCycle == pc # "idle" /\ decision.reason.kind = "not_due"

\* C21: a run_daily_cycle whose evaluate finds the rebalance not yet due
\* places no order, writes no log entry, raises nothing, and leaves the
\* fetched portfolio (positions, cash, last-trade time) and the
\* last-rebalance time as they were.
C21_NotDueCycleNoOp ==
    NotDueCycle =>
        /\ portfolio = fetched
        /\ CallOrders = << >>
        /\ CallLog = << >>
        /\ last_rebalance = prev_rebalance
        /\ pc # "raised"

\* A cycle inside the cadence window has gone through both phases and is
\* about to return a portfolio that held a position at its target and cash
\* to spend, with instruments on offer.
C21_Witness ==
    /\ NotDueCycle
    /\ pc = "return"
    /\ per_trade_budget.num > 0
    /\ instruments # << >>
    /\ SymbolsAtTarget(fetched.positions) # << >>
    /\ portfolio = fetched

\* The side of the order that a log entry's action stands for.
SideOf(action) == IF action = "SELL" THEN "sell" ELSE "buy"

\* C22: at every point of a run, also after a cycle that a brokerage failure
\* aborted, the trade log and the orders the brokerage accepted correspond
\* one to one and in order: the k-th entry has the side, the symbol and the
\* quantity of the k-th accepted order, and there is no entry without an
\* accepted order.
C22_LogMatchesOrders ==
    /\ Len(trade_log) = Len(orders)
    /\ \A k \in 1..Len(trade_log) :
          /\ trade_log[k].action \in { "SELL", "BUY" }
          /\ orders[k].side = SideOf(trade_log[k].action)
          /\ orders[k].symbol = trade_log[k].symbol
          /\ orders[k].quantity = trade_log[k].quantity

\* A cycle was aborted by a rejected order after one sale of its own, in a
\* run whose log already held an entry.
C22_Witness ==
    /\ pc = "raised"
    /\ exception = "HTTPError"
    /\ mark.log >= 1
    /\ Len(CallLog) = 1
    /\ sell_queue # << >>
    /\ Len(orders) = Len(trade_log)

\* The fees of the purchases among the entries, in 1/RateDen.
RECURSIVE BuyFees(_)
BuyFees(entries) ==
    IF entries = << >> THEN 0
    ELSE (IF Head(entries).action = "BUY"
          THEN fixed_fee * RateDen
                 + Head(entries).price * Head(entries).quantity * RateNum
          ELSE 0)
         + BuyFees(Tail(entries))

\* C23: valued at the snapshot prices, the total value of the portfolio
\* (cash plus the market values of the positions) is left unchanged by an
\* executed sale and lowered by exactly the fee by an executed purchase:
\* throughout a cycle that has not been aborted, and when it completes, the
\* total value is the fetched total value less the fees of its purchases.
C23_TotalValueLessFees ==
    pc \in { "sales", "purchases", "return" }
        => total_value(portfolio)
             = total_value(fetched) - BuyFees(CallLog)

\* A cycle has completed after selling two positions of more than one unit
\* in all: cash has grown and the total value is what was fetched.
C23_Witness ==
    /\ pc = "return"
    /\ Len(CallLog) = 2
    /\ SoldValue(CallLog) > 0
    /\ \E k \in 1..2 : CallLog[k].quantity > 1
    /\ portfolio.cash = fetched.cash + Units(SoldValue(CallLog))
    /\ total_value(portfolio) = total_value(fetched)

\* C24: a trade whose place_order fails has no effect on the in-memory
\* portfolio: after a rejected sell order the position is still held and
\* the cash is unchanged, after a rejected buy order no position has been
\* added and no cash debited, and in both cases no log entry is written.
C24_FailedOrderNoEffect ==
    [][ (pc \in { "sales", "purchases" } /\ exception' = "HTTPError")
            => /\ portfolio'.positions = portfolio.positions
               /\ portfolio'.cash = portfolio.cash
               /\ trade_log' = trade_log
      ]_vars

====
